---- MODULE Spec2Model ----
(***************************************************************************)
(* Model of fklearn's causal S-learner helpers                             *)
(* (src/fklearn/causal/cate_learning/meta_learners.py).                    *)
(*                                                                         *)
(* A pandas DataFrame is a record [columns, rows]: `columns` is the        *)
(* ordered list of column names and `rows` the ordered list of rows, each  *)
(* row a function from column name to value.  Strings are TLA+ strings,    *)
(* floats 1.0 / 0.0 and the predictions are integers.  A call's outcome is *)
(* a record that either carries a returned value or names the exception    *)
(* that was raised.                                                        *)
(***************************************************************************)
EXTENDS Integers, Sequences, FiniteSets, TLC

VARIABLES df, call, result

vars == <<df, call, result>>

(***************************************************************************)
(* Bounds of the model.                                                    *)
(***************************************************************************)
MaxRows == 3
MaxScoredRows == 2
MaxPred == 1

(***************************************************************************)
(* Program constants and the input universes.                              *)
(***************************************************************************)
TREATMENT_FEATURE == "is_treatment"

UPLIFT_SUFFIX == "__uplift"

TreatmentCol == "treatment"
FeatureCol == "x"
PredictionColumn == "prediction"
ControlName == "control"

ColumnLabels == {"control", "A", "B"}
RequestLabels == {"control", "A", "B"}
FitLabels == {"A", "B"}
SimulateLabels == {"A", "B__uplift"}
SimulateControls == {"control", "ctl__uplift"}
XVals == {0, 1}

(***************************************************************************)
(* Sequences and strings.                                                  *)
(***************************************************************************)
Range(s) == {s[i] : i \in DOMAIN s}

InList(v, s) == \E i \in DOMAIN s : s[i] = v

SeqsUpTo(S, n) == UNION {[1..k -> S] : k \in 0..n}

DistinctSeqs(S, n) == {s \in SeqsUpTo(S, n) : \A i, j \in DOMAIN s : i # j => s[i] # s[j]}

RECURSIVE MaxOf(_)
MaxOf(s) ==
    IF Len(s) = 1 THEN s[1]
    ELSE LET m == MaxOf(Tail(s)) IN IF s[1] >= m THEN s[1] ELSE m

\* str.replace(old, new): every non-overlapping occurrence, left to right.
RECURSIVE StrReplace(_, _, _)
StrReplace(s, old, new) ==
    IF Len(s) < Len(old) THEN s
    ELSE IF SubSeq(s, 1, Len(old)) = old
         THEN new \o StrReplace(SubSeq(s, Len(old) + 1, Len(s)), old, new)
         ELSE SubSeq(s, 1, 1) \o StrReplace(SubSeq(s, 2, Len(s)), old, new)

(***************************************************************************)
(* DataFrame operations.                                                   *)
(***************************************************************************)
NRows(t) == Len(t.rows)

HasColumn(t, c) == InList(c, t.columns)

\* t[c]
Column(t, c) == [i \in 1..NRows(t) |-> t.rows[i][c]]

\* t[c] = vals: replaces the column in place, or appends it as the last one
SetColumn(t, c, vals) ==
    [columns |-> IF HasColumn(t, c) THEN t.columns ELSE Append(t.columns, c),
     rows |-> [i \in 1..NRows(t) |-> (c :> vals[i]) @@ t.rows[i]]]

RECURSIVE SelectSeq2(_, _)
SelectSeq2(s, keep) ==
    IF s = <<>> THEN <<>>
    ELSE IF keep[1] THEN <<s[1]>> \o SelectSeq2(Tail(s), Tail(keep))
         ELSE SelectSeq2(Tail(s), Tail(keep))

\* variant: the column is left on the frame
DropColumn_noop(t, c) == t

\* t.drop(columns=[c]) for a column that is present
DropColumn(t, c) ==
    [columns |-> SelectSeq2(t.columns, [i \in 1..Len(t.columns) |-> t.columns[i] # c]),
     rows |-> [i \in 1..NRows(t) |->
                 [k \in (DOMAIN t.rows[i]) \ {c} |-> t.rows[i][k]]]]

\* t.loc[mask, :]
FilterRows(t, mask) ==
    [columns |-> t.columns, rows |-> SelectSeq2(t.rows, mask)]

\* Series.unique(): the distinct values in order of first appearance
RECURSIVE Unique(_)
Unique(s) ==
    IF s = <<>> THEN <<>>
    ELSE LET init == Unique(SubSeq(s, 1, Len(s) - 1))
             last == s[Len(s)]
         IN  IF InList(last, init) THEN init ELSE Append(init, last)

(***************************************************************************)
(* Outcomes of a call.                                                     *)
(***************************************************************************)
Raise(e) == [raised |-> TRUE, exc |-> e, value |-> <<>>]

Return(v) == [raised |-> FALSE, exc |-> "none", value |-> v]

(***************************************************************************)
(* _get_unique_treatments                                                  *)
(***************************************************************************)
\* variant: the resolver without its control check
get_unique_treatments_unchecked(d, treatment_col, control_name) ==
    LET values == Unique(Column(d, treatment_col))
    IN  Return(SelectSeq2(values, [i \in 1..Len(values) |-> values[i] # control_name]))

get_unique_treatments(d, treatment_col, control_name) ==
    LET values == Unique(Column(d, treatment_col))
    IN  IF ~InList(control_name, values)
        THEN Raise("MissingControlError")
        ELSE Return(SelectSeq2(values, [i \in 1..Len(values) |-> values[i] # control_name]))

(***************************************************************************)
(* _filter_by_treatment                                                    *)
(***************************************************************************)
\* variant: a mask that keeps every row
FilterMask_all(d, treatment_col, treatment_name, control_name) ==
    [i \in 1..NRows(d) |-> TRUE]

FilterMask(d, treatment_col, treatment_name, control_name) ==
    [i \in 1..NRows(d) |->
        \/ d.rows[i][treatment_col] = treatment_name
        \/ d.rows[i][treatment_col] = control_name]

\* variant: the filter without its treatment check
filter_by_treatment_unchecked(d, treatment_col, treatment_name, control_name) ==
    LET treatment_control_values == Unique(Column(d, treatment_col))
    IN  IF ~InList(control_name, treatment_control_values)
        THEN Raise("MissingControlError")
        ELSE Return(FilterRows(d, [i \in 1..NRows(d) |->
                                     \/ d.rows[i][treatment_col] = treatment_name
                                     \/ d.rows[i][treatment_col] = control_name]))

filter_by_treatment(d, treatment_col, treatment_name, control_name) ==
    LET treatment_control_values == Unique(Column(d, treatment_col))
    IN  IF ~InList(control_name, treatment_control_values)
        THEN Raise("MissingControlError")
        ELSE IF ~InList(treatment_name, treatment_control_values)
        THEN Raise("MissingTreatmentError")
        ELSE Return(FilterRows(d, FilterMask(d, treatment_col, treatment_name, control_name)))

(***************************************************************************)
(* _create_treatment_flag                                                  *)
(***************************************************************************)
\* variant: the two values of np.where swapped
TreatmentFlag_swapped(d, treatment_col, treatment_name) ==
    [i \in 1..NRows(d) |-> IF d.rows[i][treatment_col] = treatment_name THEN 0 ELSE 1]

TreatmentFlag(d, treatment_col, treatment_name) ==
    [i \in 1..NRows(d) |-> IF d.rows[i][treatment_col] = treatment_name THEN 1 ELSE 0]

create_treatment_flag(d, treatment_col, treatment_name, control_name) ==
    LET copy == d
        treatment_control_values == Unique(Column(copy, treatment_col))
        unique == get_unique_treatments(copy, treatment_col, control_name)
    IN  IF unique.raised THEN unique
        ELSE IF Len(unique.value) > 1 THEN Raise("MultipleTreatmentsError")
        ELSE IF ~InList(control_name, treatment_control_values)
        THEN Raise("MissingControlError")
        ELSE IF ~InList(treatment_name, treatment_control_values)
        THEN Raise("MissingTreatmentError")
        ELSE Return(SetColumn(copy, TREATMENT_FEATURE,
                              TreatmentFlag(copy, treatment_col, treatment_name)))

(***************************************************************************)
(* The external collaborators.  A fitted predictor maps a frame to a frame *)
(* holding the prediction column; it reads the feature column and the      *)
(* treatment flag of each row, and it may fail.  A learner (the model-fit  *)
(* function) is opaque: the predictor it returns is an input of the model, *)
(* and its log records the table it was trained on.                        *)
(***************************************************************************)
GoodPredictors == [onT : 0..MaxPred, slope : 0..MaxPred, ok : {TRUE}]

BrokenPredictor == [onT |-> 0, slope |-> 0, ok |-> FALSE]

Predictors == GoodPredictors \cup {BrokenPredictor}

PredictRow(p, row) ==
    IF row[TREATMENT_FEATURE] = 1 THEN p.onT ELSE p.slope * row[FeatureCol]

learner_fcn(p, d, prediction_column) ==
    IF ~p.ok THEN Raise("PredictorError")
    ELSE Return(SetColumn(d, prediction_column,
                          [i \in 1..NRows(d) |-> PredictRow(p, d.rows[i])]))

learner(fit, d) ==
    [learner_fcn |-> fit, learner_log |-> [trained_on |-> d]]

(***************************************************************************)
(* Python dicts: insertion-ordered keys.                                   *)
(***************************************************************************)
EmptyDict == [keys |-> <<>>, vals |-> <<>>]

DictSet(dct, k, v) ==
    [keys |-> IF InList(k, dct.keys) THEN dct.keys ELSE Append(dct.keys, k),
     vals |-> (k :> v) @@ dct.vals]

(***************************************************************************)
(* _fit_by_treatment.  `fit` is the predictor the learner returns;         *)
(* `calls` lists the tables the learner was given, in order.               *)
(***************************************************************************)
RECURSIVE FitLoop(_, _, _, _, _, _, _)
FitLoop(d, fit, treatment_col, control_name, treatments, k, acc) ==
    IF k > Len(treatments)
    THEN [raised |-> FALSE, exc |-> "none",
          value |-> [fitted_learners |-> acc.fitted_learners,
                     learners_logs |-> acc.learners_logs],
          calls |-> acc.calls]
    ELSE LET treatment == treatments[k]
             filtered == filter_by_treatment(d, treatment_col, treatment, control_name)
             flagged == create_treatment_flag(filtered.value, treatment_col,
                                              treatment, control_name)
         IN  IF filtered.raised
             THEN [raised |-> TRUE, exc |-> filtered.exc, value |-> <<>>,
                   calls |-> acc.calls]
             ELSE IF flagged.raised
             THEN [raised |-> TRUE, exc |-> flagged.exc, value |-> <<>>,
                   calls |-> acc.calls]
             ELSE LET fitted == learner(fit, flagged.value)
                  IN  FitLoop(d, fit, treatment_col, control_name, treatments, k + 1,
                              [fitted_learners |->
                                   DictSet(acc.fitted_learners, treatment, fitted.learner_fcn),
                               learners_logs |->
                                   DictSet(acc.learners_logs, treatment, fitted.learner_log),
                               calls |-> Append(acc.calls, flagged.value)])

fit_by_treatment(d, fit, treatment_col, control_name, treatments) ==
    FitLoop(d, fit, treatment_col, control_name, treatments, 1,
            [fitted_learners |-> EmptyDict, learners_logs |-> EmptyDict, calls |-> <<>>])

(***************************************************************************)
(* _predict_by_treatment_flag.  The frame is mutated in place: `frame` is  *)
(* the frame as the call leaves it.                                        *)
(***************************************************************************)
ForcedFlag(d, is_treatment) ==
    [i \in 1..NRows(d) |-> IF is_treatment THEN 1 ELSE 0]

predict_by_treatment_flag(d, p, is_treatment, prediction_column) ==
    LET flagged == SetColumn(d, TREATMENT_FEATURE, ForcedFlag(d, is_treatment))
        prediction_df == learner_fcn(p, flagged, prediction_column)
    IN  IF prediction_df.raised
        THEN [raised |-> TRUE, exc |-> prediction_df.exc, value |-> <<>>,
              frame |-> flagged]
        ELSE [raised |-> FALSE, exc |-> "none",
              value |-> Column(prediction_df.value, prediction_column),
              frame |-> DropColumn(flagged, TREATMENT_FEATURE)]

(***************************************************************************)
(* _simulate_treatment_effect                                              *)
(***************************************************************************)
OnTreatmentCol(treatment, prediction_column) ==
    "treatment_" \o treatment \o "__" \o prediction_column \o "_on_treatment"

OnControlCol(treatment, prediction_column) ==
    "treatment_" \o treatment \o "__" \o prediction_column \o "_on_control"

UpliftCol(treatment) == "treatment_" \o treatment \o "__uplift"

\* variant: the difference taken the other way round
UpliftValues_reversed(on_treatment, on_control) ==
    [i \in DOMAIN on_treatment |-> on_control[i] - on_treatment[i]]

\* on-treatment column minus on-control column, row by row
UpliftValues(on_treatment, on_control) ==
    [i \in DOMAIN on_treatment |-> on_treatment[i] - on_control[i]]

\* one pass of the loop body: the two counterfactual columns and the uplift column
ScoreTreatment(scored_df, treatment, fcn, prediction_column) ==
    LET treated == predict_by_treatment_flag(scored_df, fcn, TRUE, prediction_column)
        scored1 == SetColumn(treated.frame,
                             OnTreatmentCol(treatment, prediction_column), treated.value)
        control == predict_by_treatment_flag(scored1, fcn, FALSE, prediction_column)
        scored2 == SetColumn(control.frame,
                             OnControlCol(treatment, prediction_column), control.value)
    IN  IF treated.raised THEN Raise(treated.exc)
        ELSE IF control.raised THEN Raise(control.exc)
        ELSE Return(SetColumn(scored2, UpliftCol(treatment),
                       UpliftValues(
                           Column(scored2, OnTreatmentCol(treatment, prediction_column)),
                           Column(scored2, OnControlCol(treatment, prediction_column)))))

\* the loop over the treatments, from the k-th one on (the singleton sets only bind a
\* value that is used several times)
RECURSIVE ScoreLoop(_, _, _, _, _)
ScoreLoop(scored_df, treatments, learners, prediction_column, k) ==
    IF k > Len(treatments)
    THEN Return(scored_df)
    ELSE CHOOSE out \in
            {IF step.raised THEN step
             ELSE ScoreLoop(step.value, treatments, learners, prediction_column, k + 1) :
                step \in {ScoreTreatment(scored_df, treatments[k], learners[treatments[k]],
                                         prediction_column)}} : TRUE

\* DataFrame.max(axis=1) over the uplift columns
RowMax(scored_df, uplift_cols, i) ==
    MaxOf([k \in 1..Len(uplift_cols) |-> scored_df.rows[i][uplift_cols[k]]])

\* variant: the last of the uplift columns holding the row's maximum
IdxMax_last(scored_df, uplift_cols, i) ==
    LET last == CHOOSE k \in 1..Len(uplift_cols) :
                    /\ scored_df.rows[i][uplift_cols[k]] = RowMax(scored_df, uplift_cols, i)
                    /\ \A j \in (k + 1)..Len(uplift_cols) :
                          scored_df.rows[i][uplift_cols[j]] # RowMax(scored_df, uplift_cols, i)
    IN  uplift_cols[last]

\* DataFrame.idxmax(axis=1): the first of the uplift columns holding the row's maximum
IdxMax(scored_df, uplift_cols, i) ==
    LET first == CHOOSE k \in 1..Len(uplift_cols) :
                    /\ scored_df.rows[i][uplift_cols[k]] = RowMax(scored_df, uplift_cols, i)
                    /\ \A j \in 1..(k - 1) :
                          scored_df.rows[i][uplift_cols[j]] # RowMax(scored_df, uplift_cols, i)
    IN  uplift_cols[first]

\* variant: control only below zero
Suggest_strict(uplift, control_name, idxmax) ==
    IF uplift < 0 THEN control_name ELSE idxmax

\* np.where(uplift <= 0, control_name, idxmax)
Suggest(uplift, control_name, idxmax) ==
    IF uplift <= 0 THEN control_name ELSE idxmax

\* lambda x: x.replace("__uplift", "")
StripDecoration(x) == StrReplace(x, UPLIFT_SUFFIX, "")

\* the two summary columns, set on the scored frame
Summarise(scored_df, uplift_cols, control_name) ==
    LET uplift == [i \in 1..NRows(scored_df) |-> RowMax(scored_df, uplift_cols, i)]
        suggested == [i \in 1..NRows(scored_df) |->
                         Suggest(uplift[i], control_name, IdxMax(scored_df, uplift_cols, i))]
    IN  SetColumn(SetColumn(scored_df, "uplift", uplift), "suggested_treatment",
                  [i \in 1..NRows(scored_df) |-> StripDecoration(suggested[i])])

\* With no treatment at all the row-wise idxmax has nothing to choose from: pandas
\* raises (which error depends on its version), named here by one exception.
simulate_treatment_effect(d, treatments, control_name, learners, prediction_column) ==
    IF treatments = <<>> THEN Raise("PandasError")
    ELSE CHOOSE out \in
            {IF looped.raised THEN looped
             ELSE Return(Summarise(looped.value,
                                   [k \in 1..Len(treatments) |-> UpliftCol(treatments[k])],
                                   control_name)) :
                looped \in {ScoreLoop(d, treatments, learners, prediction_column, 1)}} : TRUE

(***************************************************************************)
(* causal_s_classification_learner: (p, p(df), log).  The closure p is     *)
(* represented by what it captures.                                        *)
(***************************************************************************)
append_treatment_feature(features, treatment_feature) == Append(features, treatment_feature)

\* the closure p and the triple returned, once the treatments are fitted
LearnerReturn(d, unique_treatments, fitted, control_name, prediction_column) ==
    LET scored == simulate_treatment_effect(d, unique_treatments, control_name,
                                            fitted.fitted_learners.vals, prediction_column)
    IN  IF scored.raised THEN scored
        ELSE Return([p |-> [treatments |-> unique_treatments,
                            learners |-> fitted.fitted_learners],
                     scored |-> scored.value,
                     log |-> [learners_logs |-> fitted.learners_logs,
                              causal_features |->
                                  append_treatment_feature(<<FeatureCol>>, TREATMENT_FEATURE)]])

causal_s_classification_learner(d, treatment_col, control_name, prediction_column, fit) ==
    CHOOSE out \in
        {IF unique_treatments.raised THEN unique_treatments
         ELSE CHOOSE r \in
                {IF fitted.raised THEN Raise(fitted.exc)
                 ELSE LearnerReturn(d, unique_treatments.value, fitted.value, control_name,
                                    prediction_column) :
                    fitted \in {fit_by_treatment(d, fit, treatment_col, control_name,
                                                 unique_treatments.value)}} : TRUE :
            unique_treatments \in {get_unique_treatments(d, treatment_col, control_name)}} : TRUE

(***************************************************************************)
(* The inputs.                                                             *)
(***************************************************************************)
Frame(columns, rows) == [columns |-> columns, rows |-> rows]

TrainingRows == {(FeatureCol :> x) @@ (TreatmentCol :> l) : x \in XVals, l \in ColumnLabels}

\* training data: a feature and the treatment column
Datasets == {Frame(<<FeatureCol, TreatmentCol>>, rows) : rows \in SeqsUpTo(TrainingRows, MaxRows)}

PlainRows == {(FeatureCol :> x) : x \in XVals}

FlaggedRows == {(FeatureCol :> x) @@ (TREATMENT_FEATURE :> f) : x \in XVals, f \in {0, 1}}

\* a population to be scored, of one row or more: a feature, and possibly a treatment
\* flag already on it; _simulate_treatment_effect and _predict_by_treatment_flag read no
\* treatment column
ScoringFrames ==
    {Frame(<<FeatureCol>>, rows) : rows \in SeqsUpTo(PlainRows, MaxScoredRows) \ {<<>>}}
    \cup {Frame(<<FeatureCol, TREATMENT_FEATURE>>, rows) :
              rows \in SeqsUpTo(FlaggedRows, MaxScoredRows) \ {<<>>}}

NoCall ==
    [op |-> "none", df |-> Frame(<<>>, <<>>), treatment_name |-> "", control_name |-> "",
     treatments |-> <<>>, learners |-> <<>>, is_treatment |-> FALSE]

NoResult == [raised |-> FALSE, exc |-> "none", value |-> <<>>]

(***************************************************************************)
(* Training-side calls.                                                    *)
(***************************************************************************)
Init ==
    /\ df \in Datasets
    /\ call = NoCall
    /\ result = NoResult

CallGetUniqueTreatments ==
    /\ call.op = "none"
    /\ call' = [NoCall EXCEPT !.op = "get_unique_treatments", !.df = df,
                              !.control_name = ControlName]
    /\ result' = get_unique_treatments(df, TreatmentCol, ControlName)
    /\ UNCHANGED df

CallFilterByTreatment ==
    /\ call.op = "none"
    /\ \E treatment_name \in RequestLabels :
        /\ call' = [NoCall EXCEPT !.op = "filter_by_treatment", !.df = df,
                                  !.treatment_name = treatment_name,
                                  !.control_name = ControlName]
        /\ result' = filter_by_treatment(df, TreatmentCol, treatment_name, ControlName)
        /\ UNCHANGED df

CallCreateTreatmentFlag ==
    /\ call.op = "none"
    /\ \E treatment_name \in RequestLabels :
        /\ call' = [NoCall EXCEPT !.op = "create_treatment_flag", !.df = df,
                                  !.treatment_name = treatment_name,
                                  !.control_name = ControlName]
        /\ result' = create_treatment_flag(df, TreatmentCol, treatment_name, ControlName)
        /\ UNCHANGED df

CallFitByTreatment ==
    /\ call.op = "none"
    /\ \E treatments \in DistinctSeqs(FitLabels, Cardinality(FitLabels)) :
        \E fit \in GoodPredictors :
            /\ call' = [NoCall EXCEPT !.op = "fit_by_treatment", !.df = df,
                                      !.control_name = ControlName,
                                      !.treatments = treatments, !.learners = <<fit>>]
            /\ result' = fit_by_treatment(df, fit, TreatmentCol, ControlName, treatments)
            /\ UNCHANGED df

CallCausalSClassificationLearner ==
    /\ call.op = "none"
    /\ \E fit \in Predictors :
        /\ call' = [NoCall EXCEPT !.op = "causal_s_classification_learner", !.df = df,
                                  !.control_name = ControlName, !.learners = <<fit>>]
        /\ result' = causal_s_classification_learner(df, TreatmentCol, ControlName,
                                                     PredictionColumn, fit)
        /\ UNCHANGED df

\* the caller is done with the outcome of its last call
Continue ==
    /\ call.op # "none"
    /\ call' = NoCall
    /\ result' = NoResult
    /\ UNCHANGED df

Next ==
    \/ CallGetUniqueTreatments
    \/ CallFilterByTreatment
    \/ CallCreateTreatmentFlag
    \/ CallFitByTreatment
    \/ CallCausalSClassificationLearner
    \/ Continue

Spec == Init /\ [][Next]_vars

(***************************************************************************)
(* Scoring-side calls.  _predict_by_treatment_flag works on the caller's   *)
(* frame itself; _simulate_treatment_effect on a copy of it.               *)
(***************************************************************************)
InitSim ==
    /\ df \in ScoringFrames
    /\ call = NoCall
    /\ result = NoResult

CallPredictByTreatmentFlag ==
    /\ call.op = "none"
    /\ \E p \in Predictors, is_treatment \in BOOLEAN :
        LET out == predict_by_treatment_flag(df, p, is_treatment, PredictionColumn)
        IN  /\ call' = [NoCall EXCEPT !.op = "predict_by_treatment_flag", !.df = df,
                                      !.learners = <<p>>, !.is_treatment = is_treatment]
            /\ result' = [raised |-> out.raised, exc |-> out.exc, value |-> out.value]
            /\ df' = out.frame

CallSimulateTreatmentEffect ==
    /\ call.op = "none"
    /\ \E treatments \in DistinctSeqs(SimulateLabels, Cardinality(SimulateLabels)) \ {<<>>},
          control_name \in SimulateControls :
        \E learners \in [Range(treatments) -> Predictors] :
            /\ call' = [NoCall EXCEPT !.op = "simulate_treatment_effect", !.df = df,
                                      !.control_name = control_name,
                                      !.treatments = treatments, !.learners = learners]
            /\ result' = simulate_treatment_effect(df, treatments, control_name, learners,
                                                   PredictionColumn)
            /\ UNCHANGED df

NextSim ==
    \/ CallPredictByTreatmentFlag
    \/ CallSimulateTreatmentEffect
    \/ Continue

SpecSim == InitSim /\ [][NextSim]_vars

(***************************************************************************)
(* Properties of the training-side calls (checked under Spec).             *)
(***************************************************************************)
InputLabels == Range(Column(call.df, TreatmentCol))

InputNonControl == InputLabels \ {call.control_name}

Raised(e) == result.raised /\ result.exc = e

ValidatingOps == {"get_unique_treatments", "filter_by_treatment", "create_treatment_flag"}

\* C3: _create_treatment_flag validates in the order MultipleTreatments, MissingControl,
\* MissingTreatment: with two or more distinct non-control labels in the column it raises
\* MultipleTreatments whether or not the control label or the requested label is present.
C3_MultipleBeforeControl ==
    call.op = "create_treatment_flag" =>
        IF Cardinality(InputNonControl) >= 2 THEN Raised("MultipleTreatmentsError")
        ELSE IF call.control_name \notin InputLabels THEN Raised("MissingControlError")
        ELSE IF call.treatment_name \notin InputLabels THEN Raised("MissingTreatmentError")
        ELSE ~result.raised

\* C4: on a Dataset whose treatment column lacks the control label, the resolver, the
\* filter and the flag injection each raise MissingControl (and return nothing), whatever
\* the other labels and whatever treatment label is requested.
C4_MissingControlAlways ==
    (call.op \in ValidatingOps /\ call.control_name \notin InputLabels)
        => Raised("MissingControlError")

C4_Witness ==
    /\ call.op = "create_treatment_flag"
    /\ call.control_name \notin InputLabels
    /\ Cardinality(InputNonControl) >= 2
    /\ call.treatment_name \in InputLabels
    /\ Raised("MissingControlError")

TwoGroupInput ==
    /\ call.op = "create_treatment_flag"
    /\ call.treatment_name # call.control_name
    /\ call.control_name \in InputLabels
    /\ call.treatment_name \in InputLabels
    /\ InputNonControl = {call.treatment_name}

\* C6: on a valid two-group input _create_treatment_flag returns the same rows in the same
\* order with every original column unchanged, plus is_treatment, which is 1.0 on the rows
\* of the treatment label and 0.0 on the rows of the control label; the caller's table is
\* unchanged and gets no is_treatment column.
C6_FlagInjection ==
    TwoGroupInput =>
        /\ ~result.raised
        /\ result.value.columns = Append(call.df.columns, "is_treatment")
        /\ NRows(result.value) = NRows(call.df)
        /\ \A i \in 1..NRows(call.df) :
              /\ \A c \in Range(call.df.columns) :
                    result.value.rows[i][c] = call.df.rows[i][c]
              /\ call.df.rows[i][TreatmentCol] = call.treatment_name
                    => result.value.rows[i]["is_treatment"] = 1
              /\ call.df.rows[i][TreatmentCol] = call.control_name
                    => result.value.rows[i]["is_treatment"] = 0
        /\ df = call.df
        /\ "is_treatment" \notin Range(df.columns)

C6_Witness ==
    /\ TwoGroupInput
    /\ ~result.raised
    /\ \E i, j \in 1..NRows(result.value) :
          /\ i < j
          /\ result.value.rows[i]["is_treatment"] = 0
          /\ result.value.rows[j]["is_treatment"] = 1

\* the table the learner is to be given for label L: the rows of L and of the control
\* label, in their original order, flagged
TrainingTable(d, L, control_name) ==
    LET Keep(r) == r[TreatmentCol] = L \/ r[TreatmentCol] = control_name
        kept == SelectSeq(d.rows, Keep)
    IN  [columns |-> Append(d.columns, "is_treatment"),
         rows |-> [i \in 1..Len(kept) |->
                     [c \in DOMAIN kept[i] \cup {"is_treatment"} |->
                        IF c = "is_treatment"
                        THEN (IF kept[i][TreatmentCol] = L THEN 1 ELSE 0)
                        ELSE kept[i][c]]]]

FitInputValid ==
    /\ call.op = "fit_by_treatment"
    /\ call.control_name \in InputLabels
    /\ Range(call.treatments) \subseteq InputLabels

\* C7: with distinct treatment labels all present together with control, _fit_by_treatment
\* invokes the learner once per label, in list order, on exactly the rows of that label and
\* of control (original order, is_treatment set), and returns a predictor mapping and a log
\* mapping whose keys are the treatments list, in list order.
C7_FitPerTreatment ==
    FitInputValid =>
        /\ ~result.raised
        /\ result.calls = [k \in 1..Len(call.treatments) |->
                              TrainingTable(call.df, call.treatments[k], call.control_name)]
        /\ result.value.fitted_learners.keys = call.treatments
        /\ result.value.learners_logs.keys = call.treatments
        /\ DOMAIN result.value.fitted_learners.vals = Range(call.treatments)
        /\ DOMAIN result.value.learners_logs.vals = Range(call.treatments)
        /\ \A k \in 1..Len(call.treatments) :
              result.value.learners_logs.vals[call.treatments[k]].trained_on
                  = TrainingTable(call.df, call.treatments[k], call.control_name)

C7_Witness ==
    /\ FitInputValid
    /\ Len(call.treatments) = 2
    /\ InputLabels = {"A", "B", "control"}
    /\ ~result.raised
    /\ Len(result.calls) = 2

(***************************************************************************)
(* Properties of the scoring-side calls (checked under SpecSim).           *)
(***************************************************************************)
SimReturned == call.op = "simulate_treatment_effect" /\ ~result.raised

ScoredRow(i) == result.value.rows[i]

UpliftOf(i, L) == ScoredRow(i)["treatment_" \o L \o "__uplift"]

OnTreatmentOf(i, L) == ScoredRow(i)["treatment_" \o L \o "__prediction_on_treatment"]

OnControlOf(i, L) == ScoredRow(i)["treatment_" \o L \o "__prediction_on_control"]

\* the positions of the treatments list whose uplift is the row's maximum
Maximal(i) ==
    {k \in 1..Len(call.treatments) : UpliftOf(i, call.treatments[k]) = ScoredRow(i)["uplift"]}

\* what is left of the uplift column name of a label, and of a control label, once every
\* "__uplift" is taken out of it
SuggestedName(L) == IF L = "A" THEN "treatment_A" ELSE "treatment_B"

SuggestedControl(c) == IF c = "control" THEN "control" ELSE "ctl"

\* C1 as stated: suggested_treatment is the control label where the row's maximum uplift
\* is <= 0 and otherwise the label itself, as in the treatments list, of a treatment
\* achieving the maximum.
C1_SuggestedIsLabel ==
    SimReturned =>
        \A i \in 1..NRows(result.value) :
            IF ScoredRow(i)["uplift"] <= 0
            THEN ScoredRow(i)["suggested_treatment"] = call.control_name
            ELSE \E k \in Maximal(i) :
                    ScoredRow(i)["suggested_treatment"] = call.treatments[k]

\* C1 amended: suggested_treatment is, where the row's maximum uplift is <= 0, the control
\* label with every "__uplift" removed from it, and otherwise the uplift column name
\* treatment_<L>__uplift of a treatment L achieving the maximum with every "__uplift"
\* removed from it: treatment_<L>, prefix kept, for a label that holds no "__uplift".
C1_SuggestedIsColumnName ==
    SimReturned =>
        \A i \in 1..NRows(result.value) :
            IF ScoredRow(i)["uplift"] <= 0
            THEN ScoredRow(i)["suggested_treatment"] = SuggestedControl(call.control_name)
            ELSE \E k \in Maximal(i) :
                    ScoredRow(i)["suggested_treatment"] = SuggestedName(call.treatments[k])

C1_Witness ==
    /\ SimReturned
    /\ \E i, j \in 1..NRows(result.value) :
          /\ ScoredRow(i)["uplift"] > 0
          /\ ScoredRow(i)["suggested_treatment"] = "treatment_A"
          /\ ScoredRow(j)["uplift"] = 0
          /\ ScoredRow(j)["suggested_treatment"] = "control"

\* C2: for every label L and row, treatment_<L>__uplift is the on-treatment column minus
\* the on-control column, and uplift is the maximum of the per-label uplifts of the row.
C2_UpliftColumns ==
    SimReturned =>
        \A i \in 1..NRows(result.value) :
            /\ \A L \in Range(call.treatments) :
                  /\ UpliftOf(i, L) = OnTreatmentOf(i, L) - OnControlOf(i, L)
                  /\ ScoredRow(i)["uplift"] >= UpliftOf(i, L)
            /\ \E L \in Range(call.treatments) : ScoredRow(i)["uplift"] = UpliftOf(i, L)

C2_Witness ==
    /\ SimReturned
    /\ Len(call.treatments) = 2
    /\ \E i \in 1..NRows(result.value) :
          /\ UpliftOf(i, call.treatments[1]) < 0
          /\ UpliftOf(i, call.treatments[2]) > 0
          /\ OnControlOf(i, call.treatments[1]) > 0

PredictReturned == call.op = "predict_by_treatment_flag" /\ ~result.raised

\* C8: after a call of _predict_by_treatment_flag that returns, the frame it was given has
\* no is_treatment column, whether or not it had one before, and the values returned are
\* the predictor's predictions with is_treatment forced to 1.0 (is_treatment true) or to
\* 0.0 (false) on every row.
C8_FlagRemoved ==
    PredictReturned =>
        /\ "is_treatment" \notin Range(df.columns)
        /\ \A i \in 1..NRows(df) : "is_treatment" \notin DOMAIN df.rows[i]
        /\ result.value =
              [i \in 1..NRows(call.df) |->
                  PredictRow(call.learners[1],
                             [c \in {"x", "is_treatment"} |->
                                 IF c = "x" THEN call.df.rows[i]["x"]
                                 ELSE IF call.is_treatment THEN 1 ELSE 0])]

C8_Witness ==
    /\ PredictReturned
    /\ "is_treatment" \in Range(call.df.columns)
    /\ ~call.is_treatment
    /\ \E i \in 1..NRows(call.df) :
          /\ call.df.rows[i]["is_treatment"] = 1
          /\ result.value[i] # call.learners[1].onT

AddedColumns ==
    UNION {{"treatment_" \o L \o "__prediction_on_treatment",
            "treatment_" \o L \o "__prediction_on_control",
            "treatment_" \o L \o "__uplift"} : L \in Range(call.treatments)}
    \cup {"uplift", "suggested_treatment"}

\* C9: the table _simulate_treatment_effect returns is the input augmented: the same
\* number of rows, every column of the input with its values unchanged, and besides them
\* exactly the three columns per label plus uplift and suggested_treatment; the caller's
\* Dataset is unchanged by the call.
C9_InputAugmented ==
    SimReturned =>
        /\ NRows(result.value) = NRows(call.df)
        /\ Range(result.value.columns) = Range(call.df.columns) \cup AddedColumns
        /\ \A c \in Range(call.df.columns) :
              /\ c \in Range(result.value.columns)
              /\ \A i \in 1..NRows(call.df) : ScoredRow(i)[c] = call.df.rows[i][c]
        /\ df = call.df

\* C10: on a row whose maximum uplift is > 0 and is attained by two or more labels, the
\* treatment suggested is the first of them in the treatments list, never a later one.
C10_FirstMaximalWins ==
    SimReturned =>
        \A i \in 1..NRows(result.value) :
            (ScoredRow(i)["uplift"] > 0 /\ Cardinality(Maximal(i)) >= 2) =>
                LET first == CHOOSE k \in Maximal(i) : \A j \in Maximal(i) : k <= j
                IN  /\ ScoredRow(i)["suggested_treatment"]
                          = SuggestedName(call.treatments[first])
                    /\ \A j \in Maximal(i) \ {first} :
                          ScoredRow(i)["suggested_treatment"]
                              # SuggestedName(call.treatments[j])

C10_Witness ==
    /\ SimReturned
    /\ call.treatments = <<"B__uplift", "A">>
    /\ \E i \in 1..NRows(result.value) :
          /\ ScoredRow(i)["uplift"] > 0
          /\ Maximal(i) = {1, 2}
          /\ ScoredRow(i)["suggested_treatment"] = "treatment_B"

\* C11: after a call of _predict_by_treatment_flag, the frame it was given has no
\* is_treatment column, on every exit path: also when the predictor raised and the
\* error reached the caller.
C11_FlagRemovedOnEveryExit ==
    call.op = "predict_by_treatment_flag" =>
        /\ "is_treatment" \notin Range(df.columns)
        /\ \A i \in 1..NRows(df) : "is_treatment" \notin DOMAIN df.rows[i]

====
